---- MODULE Spec2Model ----
\* Verification model of Zettlr's editor overlays:
\*   - the CodeMirror command markdownRenderChess (chess rendering plugin),
\*   - the syntax extensions (inline decorator, code block line highlighter,
\*     heading line highlighter).
EXTENDS Integers, Sequences, FiniteSets, TLC

VARIABLES
    doc,        \* chess: the editor's lines, each [text, mode]; line numbers are 0-based
    cursor,     \* chess: the caret's line, cm.getCursor('from').line
    viewport,   \* chess: [from, to], the rendered line range, to exclusive
    markers,    \* chess: the live text markers, in creation order
    created,    \* chess: the markers made by the latest markdownRenderChess call
    before,     \* chess: the markers that were live when the latest call began
    threw,      \* chess: whether an exception left the latest call
    lastOp,     \* chess: the latest operation
    source,     \* blocks: the Markdown blocks the document is written as
    state,      \* blocks: the EditorState, [doc, tree]
    codeDecos,  \* blocks: the DecorationSet of the code block line highlighter
    headDecos,  \* blocks: the DecorationSet of the heading line highlighter
    text,       \* spans: the visible text, one line, a sequence of characters
    decorations \* spans: the decorations of the inline decorator's view plugin

chessVars == <<doc, cursor, viewport, markers, created, before, threw, lastOp>>
blockVars == <<source, state, codeDecos, headDecos>>
spanVars == <<text, decorations>>

vars == <<chessVars, blockVars, spanVars>>

\* ---------------------------------------------------------------- bounds

\* Number of lines of the document.
MaxLines == 4

\* Number of characters of the text the inline decorator sees.
MaxLen == 6

\* Number of Markdown blocks of the document the line highlighters see.
MaxBlocks == 2

\* Number of lines of the document of a single call, before its last, empty line.
MaxPassLines == 4

\* The same when board construction may fail.
MaxErrLines == 5


\* The state of the parts a specification leaves alone.
ChessIdle ==
    /\ doc = <<>>
    /\ cursor = 0
    /\ viewport = [from |-> 0, to |-> 0]
    /\ markers = <<>>
    /\ created = <<>>
    /\ before = <<>>
    /\ threw = FALSE
    /\ lastOp = "init"

BlocksIdle ==
    /\ source = <<>>
    /\ state = [doc |-> <<0>>]
    /\ codeDecos = <<>>
    /\ headDecos = <<>>

SpansIdle ==
    /\ text = <<>>
    /\ decorations = <<>>

\* ------------------------------------------------------- chess renderer

\* A line's text is a sequence of tokens: the fence (three backticks), the
\* word chess, whitespace, payload.
ChessFenceText == <<"fence", "chess">>
ClosingFenceText == <<"fence">>
BoardText == <<"e4">>
BrokenText == <<"?">>

MarkdownMode == "markdown-zkn"

\* The lines a document is made of: the opening fence in Markdown mode and
\* inside a region of another mode, the closing fence, a payload line the
\* board accepts.
LineKinds ==
    { [text |-> ChessFenceText, mode |-> MarkdownMode],
      [text |-> ChessFenceText, mode |-> "yaml"],
      [text |-> ClosingFenceText, mode |-> MarkdownMode],
      [text |-> BoardText, mode |-> MarkdownMode] }

\* The lines of a document whose payload lines the board rejects.
ErrLineKinds ==
    { [text |-> ChessFenceText, mode |-> MarkdownMode],
      [text |-> ClosingFenceText, mode |-> MarkdownMode],
      [text |-> BrokenText, mode |-> MarkdownMode] }

\* The empty line a document ends with.
LastLine == [text |-> <<>>, mode |-> MarkdownMode]

lineCount == Len(doc)
getLine(i) == doc[i + 1].text
getModeAt(i) == doc[i + 1].mode

\* The test of the opening fence: the line begins with the fence and chess.
IsChessFence(str) ==
    /\ Len(str) >= 2
    /\ str[1] = "fence"
    /\ str[2] = "chess"

\* The test of the closing fence: the fence, then whitespace only.
IsClosingFence(str) ==
    /\ Len(str) >= 1
    /\ str[1] = "fence"
    /\ \A k \in 2..Len(str) : str[k] = " "

\* Order of positions <<line, ch>>.
PosLess(p, q) == p[1] < q[1] \/ (p[1] = q[1] /\ p[2] < q[2])
PosLeq(p, q) == p = q \/ PosLess(p, q)

\* Mutant of findMarks: the check for an existing marker finds nothing.
findMarksNone(marks, from, to) == {}

\* Mutant of findMarks: only a marker that starts at from is found.
findMarksAtStart(marks, from, to) ==
    { k \in DOMAIN marks : marks[k].from = from }

\* cm.findMarks(from, to): the markers of marks that overlap the range.
findMarks(marks, from, to) ==
    { k \in DOMAIN marks :
        /\ ~ PosLeq(marks[k].to, from)
        /\ ~ PosLeq(to, marks[k].from) }

\* codeblock.join: the lines with a newline between them.
RECURSIVE join(_)
join(codeblock) ==
    IF codeblock = <<>> THEN <<>>
    ELSE IF Len(codeblock) = 1 THEN codeblock[1]
    ELSE codeblock[1] \o <<"\n">> \o join(Tail(codeblock))

\* new Chessboard(elem, { position: code }) throws on a payload it cannot read.
ChessboardThrows(code) == \E k \in DOMAIN code : code[k] = "?"

\* Mutant of createElem: no catch clause, the constructor's exception escapes.
createElemNoCatch(code) ==
    IF ChessboardThrows(code)
    THEN [class |-> {"chessboard"}, threw |-> TRUE]
    ELSE [class |-> {"chessboard"}, threw |-> FALSE]

\* The element: a board, or the error element of the catch clause, which lets
\* no exception out.
createElem(code) ==
    IF ChessboardThrows(code)
    THEN [class |-> {"chessboard", "error"}, threw |-> FALSE]
    ELSE [class |-> {"chessboard"}, threw |-> FALSE]

\* Mutant of readBlock: the closing fence is tested before the caret.
RECURSIVE readBlockFenceFirst(_, _, _)
readBlockFenceFirst(startLine, j, codeblock) ==
    IF j >= lineCount
    THEN [j |-> j, cursorInBlock |-> FALSE, endLine |-> startLine, codeblock |-> codeblock]
    ELSE IF IsClosingFence(getLine(j))
    THEN [j |-> j, cursorInBlock |-> FALSE, endLine |-> j, codeblock |-> codeblock]
    ELSE IF cursor = j
    THEN [j |-> j, cursorInBlock |-> TRUE, endLine |-> startLine, codeblock |-> codeblock]
    ELSE readBlockFenceFirst(startLine, j + 1, Append(codeblock, getLine(j)))

\* The inner loop that reads the lines after the opening fence, from line j on.
RECURSIVE readBlock(_, _, _)
readBlock(startLine, j, codeblock) ==
    IF j >= lineCount
    THEN [j |-> j, cursorInBlock |-> FALSE, endLine |-> startLine, codeblock |-> codeblock]
    ELSE IF cursor = j
    THEN [j |-> j, cursorInBlock |-> TRUE, endLine |-> startLine, codeblock |-> codeblock]
    ELSE IF IsClosingFence(getLine(j))
    THEN [j |-> j, cursorInBlock |-> FALSE, endLine |-> j, codeblock |-> codeblock]
    ELSE readBlock(startLine, j + 1, Append(codeblock, getLine(j)))

\* i = j++ followed by the loop's i++: the line the outer loop goes on with.
nextLine(j) == j + 1

\* cm.markText(from, to, { clearOnEnter: true, replacedWith: elem, ... })
markText(from, to, code, elem) ==
    [from |-> from, to |-> to, code |-> code, elem |-> elem, clearOnEnter |-> TRUE]

\* Mutant of rendersBlock: a block without closing fence is not rejected.
rendersBlockUnclosed(startLine, r, marks) ==
    /\ ~ r.cursorInBlock
    /\ findMarks(marks, <<startLine, 0>>, <<r.endLine, 3>>) = {}

\* Whether the block read from startLine gets a widget.
rendersBlock(startLine, r, marks) ==
    /\ ~ r.cursorInBlock
    /\ ~ (r.endLine <= startLine)
    /\ findMarks(marks, <<startLine, 0>>, <<r.endLine, 3>>) = {}

\* The outer loop from line i on; marks are the live markers, made those the
\* call has created.
RECURSIVE renderLoop(_, _, _)
renderLoop(i, marks, made) ==
    IF ~ (i < viewport.to)
    THEN [markers |-> marks, created |-> made, threw |-> FALSE]
    ELSE IF getModeAt(i) # MarkdownMode
    THEN renderLoop(i + 1, marks, made)
    ELSE IF cursor = i
    THEN renderLoop(i + 1, marks, made)
    ELSE IF ~ IsChessFence(getLine(i))
    THEN renderLoop(i + 1, marks, made)
    ELSE LET r == readBlock(i, i + 1, <<>>)
             code == join(r.codeblock)
             elem == createElem(code)
             textMarker == markText(<<i, 0>>, <<r.endLine, 3>>, code, elem.class)
         IN  IF ~ rendersBlock(i, r, marks)
             THEN renderLoop(nextLine(r.j), marks, made)
             ELSE IF elem.threw
             THEN [markers |-> marks, created |-> made, threw |-> TRUE]
             ELSE renderLoop(nextLine(r.j), Append(marks, textMarker), Append(made, textMarker))

\* commands.markdownRenderChess(cm)
markdownRenderChess ==
    LET out == renderLoop(viewport.from, markers, <<>>)
    IN  /\ markers' = out.markers
        /\ created' = out.created
        /\ before' = markers
        /\ threw' = out.threw
        /\ lastOp' = IF lastOp \in {"render", "render2"} THEN "render2" ELSE "render"
        /\ UNCHANGED <<doc, cursor, viewport, blockVars, spanVars>>

RemoveAt(s, k) == SubSeq(s, 1, k - 1) \o SubSeq(s, k + 1, Len(s))

\* elem.onclick = (e) => { textMarker.clear() }
onclick(k) ==
    /\ k \in DOMAIN markers
    /\ markers' = RemoveAt(markers, k)
    /\ before' = markers'
    /\ created' = <<>>
    /\ threw' = FALSE
    /\ lastOp' = "click"
    /\ UNCHANGED <<doc, cursor, viewport, blockVars, spanVars>>

\* A marker made with clearOnEnter clears itself when the caret enters its range.
ClearsOnEnter(m, pos) ==
    /\ m.clearOnEnter
    /\ PosLess(m.from, pos)
    /\ PosLess(pos, m.to)

RECURSIVE Keep(_, _)
Keep(s, pos) ==
    IF s = <<>> THEN <<>>
    ELSE IF ClearsOnEnter(s[1], pos) THEN Keep(Tail(s), pos)
    ELSE <<s[1]>> \o Keep(Tail(s), pos)

\* The caret positions of a line the model tells apart: its start and column 3.
Columns == {0, 3}

\* The user moves the caret; the next call reads it with cm.getCursor('from').
setCursor(line, ch) ==
    /\ cursor' = line
    /\ markers' = Keep(markers, <<line, ch>>)
    /\ before' = markers'
    /\ created' = <<>>
    /\ threw' = FALSE
    /\ lastOp' = "cursor"
    /\ UNCHANGED <<doc, viewport, blockVars, spanVars>>

\* Mutant of scrollTo: scrolling drops the widgets.
scrollToClearing(from, to) ==
    /\ [from |-> from, to |-> to] # viewport
    /\ viewport' = [from |-> from, to |-> to]
    /\ markers' = <<>>
    /\ before' = <<>>
    /\ created' = <<>>
    /\ threw' = FALSE
    /\ lastOp' = "scroll"
    /\ UNCHANGED <<doc, cursor, blockVars, spanVars>>

\* The editor scrolls; the next call reads the range with cm.getViewport().
scrollTo(from, to) ==
    /\ [from |-> from, to |-> to] # viewport
    /\ viewport' = [from |-> from, to |-> to]
    /\ before' = markers
    /\ created' = <<>>
    /\ threw' = FALSE
    /\ lastOp' = "scroll"
    /\ UNCHANGED <<doc, cursor, markers, blockVars, spanVars>>

Viewports(n) == { v \in [from : 0..n, to : 0..n] : v.from < v.to }

Init ==
    /\ doc \in [1..MaxLines -> LineKinds]
    /\ cursor \in 0..(MaxLines - 1)
    /\ viewport \in Viewports(MaxLines)
    /\ markers = <<>>
    /\ created = <<>>
    /\ before = <<>>
    /\ threw = FALSE
    /\ lastOp = "init"
    /\ BlocksIdle
    /\ SpansIdle

Next ==
    \/ markdownRenderChess
    \/ \E k \in 1..MaxLines : onclick(k)
    \/ \E l \in 0..(MaxLines - 1) : \E c \in Columns : setCursor(l, c)
    \/ \E v \in Viewports(MaxLines) : scrollTo(v.from, v.to)

Spec == Init /\ [][Next]_vars

\* The closing fence that ends the block opened on line a, or the line count.
ClosingOf(a) ==
    LET fences == { j \in (a + 1)..(lineCount - 1) : IsClosingFence(getLine(j)) }
    IN  IF fences = {} THEN lineCount
        ELSE CHOOSE j \in fences : \A l \in fences : j <= l

\* The markers an earlier call can have left: none, or the widget of a block
\* that the caret was outside of then and has not entered since.
EarlierMarkers ==
    {<<>>} \cup
    { <<markText(<<a, 0>>, <<ClosingOf(a), 3>>,
                 join([k \in 1..(ClosingOf(a) - a - 1) |-> getLine(a + k)]),
                 createElem(join([k \in 1..(ClosingOf(a) - a - 1) |-> getLine(a + k)])).class)>> :
        a \in { l \in 0..(lineCount - 1) :
                  /\ getModeAt(l) = MarkdownMode
                  /\ IsChessFence(getLine(l))
                  /\ ClosingOf(l) < lineCount
                  /\ ClosingOf(l) - l + 1 < lineCount
                  /\ cursor \notin (l + 1)..(ClosingOf(l) - 1) } }

\* One call on a document, markers of an earlier call possibly live.
InitPass ==
    /\ doc \in { d \o <<LastLine>> : d \in [1..MaxPassLines -> LineKinds] }
    /\ cursor \in 0..MaxPassLines
    /\ viewport \in Viewports(MaxPassLines + 1)
    /\ markers \in EarlierMarkers
    /\ created = <<>>
    /\ before = markers
    /\ threw = FALSE
    /\ lastOp = "init"
    /\ BlocksIdle
    /\ SpansIdle

NextPass == markdownRenderChess

SpecPass == InitPass /\ [][NextPass]_vars

\* One call on a document whose payload the board may reject.
InitErr ==
    /\ doc \in { d \o <<LastLine>> : d \in [1..MaxErrLines -> ErrLineKinds] }
    /\ cursor \in 0..MaxErrLines
    /\ viewport \in Viewports(MaxErrLines + 1)
    /\ markers = <<>>
    /\ created = <<>>
    /\ before = <<>>
    /\ threw = FALSE
    /\ lastOp = "init"
    /\ BlocksIdle
    /\ SpansIdle

NextErr == markdownRenderChess

SpecErr == InitErr /\ [][NextErr]_vars

\* --------------------------------------------------- line highlighters

\* A node type name is the sequence of its parts, so that startsWith is a test
\* of the first part.
NameDocument == <<"Document">>
NameCodeText == <<"CodeText">>
NameFencedCode == <<"FencedCode">>
NameATX(level) == <<"ATX", "Heading", level>>
NameSetext(level) == <<"Setext", "Heading", level>>

Node(name, from, to, children) ==
    [name |-> name, from |-> from, to |-> to, children |-> children]

\* The Markdown blocks a document is written as: a paragraph, the headings of
\* both notations, a fenced code block with 0, 1 or 2 lines of code, and a
\* block quote that holds a heading or a fenced code block.
BlockKinds ==
    {"P", "A1", "A2", "A3", "A4", "A5", "A6", "S1", "S2", "F0", "F1", "F2", "QA", "QF"}

ATXLevel(b) ==
    CASE b = "A1" -> 1 [] b = "A2" -> 2 [] b = "A3" -> 3
      [] b = "A4" -> 4 [] b = "A5" -> 5 [] b = "A6" -> 6

\* The lengths of the lines of a block.
BlockLines(b) ==
    CASE b = "P" -> <<2>>
      [] b \in {"A1", "A2", "A3", "A4", "A5", "A6"} -> <<ATXLevel(b) + 2>>
      [] b \in {"S1", "S2"} -> <<2, 3>>
      [] b = "F0" -> <<3, 3>>
      [] b = "F1" -> <<3, 1, 3>>
      [] b = "F2" -> <<3, 1, 2, 3>>
      [] b = "QA" -> <<5>>
      [] b = "QF" -> <<5, 3, 5>>

\* The syntax node the parser makes of a block that begins at position at.
BlockNode(b, at) ==
    CASE b = "P" -> Node(<<"Paragraph">>, at, at + 2, <<>>)
      [] b \in {"A1", "A2", "A3", "A4", "A5", "A6"} ->
            Node(NameATX(ATXLevel(b)), at, at + ATXLevel(b) + 2,
                 <<Node(<<"HeaderMark">>, at, at + ATXLevel(b), <<>>)>>)
      [] b = "S1" ->
            Node(NameSetext(1), at, at + 6, <<Node(<<"HeaderMark">>, at + 3, at + 6, <<>>)>>)
      [] b = "S2" ->
            Node(NameSetext(2), at, at + 6, <<Node(<<"HeaderMark">>, at + 3, at + 6, <<>>)>>)
      [] b = "F0" ->
            Node(NameFencedCode, at, at + 7,
                 <<Node(<<"CodeMark">>, at, at + 3, <<>>),
                   Node(<<"CodeMark">>, at + 4, at + 7, <<>>)>>)
      [] b = "F1" ->
            Node(NameFencedCode, at, at + 9,
                 <<Node(<<"CodeMark">>, at, at + 3, <<>>),
                   Node(NameCodeText, at + 4, at + 5, <<>>),
                   Node(<<"CodeMark">>, at + 6, at + 9, <<>>)>>)
      [] b = "F2" ->
            Node(NameFencedCode, at, at + 12,
                 <<Node(<<"CodeMark">>, at, at + 3, <<>>),
                   Node(NameCodeText, at + 4, at + 8, <<>>),
                   Node(<<"CodeMark">>, at + 9, at + 12, <<>>)>>)
      [] b = "QA" ->
            Node(<<"Blockquote">>, at, at + 5,
                 <<Node(<<"QuoteMark">>, at, at + 1, <<>>),
                   Node(NameATX(1), at + 2, at + 5,
                        <<Node(<<"HeaderMark">>, at + 2, at + 3, <<>>)>>)>>)
      [] b = "QF" ->
            Node(<<"Blockquote">>, at, at + 15,
                 <<Node(<<"QuoteMark">>, at, at + 1, <<>>),
                   Node(NameFencedCode, at + 2, at + 15,
                        <<Node(<<"CodeMark">>, at + 2, at + 5, <<>>),
                          Node(<<"QuoteMark">>, at + 6, at + 7, <<>>),
                          Node(NameCodeText, at + 8, at + 9, <<>>),
                          Node(<<"QuoteMark">>, at + 10, at + 11, <<>>),
                          Node(<<"CodeMark">>, at + 12, at + 15, <<>>)>>)>>)

RECURSIVE SumLens(_)
SumLens(lens) == IF lens = <<>> THEN 0 ELSE lens[1] + SumLens(Tail(lens))

\* The length of a text of these lines, line breaks counted.
TextLength(lens) == IF lens = <<>> THEN 0 ELSE SumLens(lens) + Len(lens) - 1

\* The lines of a document of these blocks, an empty line between two blocks.
RECURSIVE SourceLines(_)
SourceLines(blocks) ==
    IF blocks = <<>> THEN <<0>>
    ELSE IF Len(blocks) = 1 THEN BlockLines(blocks[1])
    ELSE BlockLines(blocks[1]) \o <<0>> \o SourceLines(Tail(blocks))

\* The block nodes of the document, the first one at position at.
RECURSIVE SourceNodes(_, _)
SourceNodes(blocks, at) ==
    IF blocks = <<>> THEN <<>>
    ELSE <<BlockNode(blocks[1], at)>> \o
         SourceNodes(Tail(blocks), at + TextLength(BlockLines(blocks[1])) + 2)

\* The EditorState of a document: state.doc as its line lengths, and
\* syntaxTree(state).
EditorStateOf(blocks) ==
    [doc |-> SourceLines(blocks),
     tree |-> Node(NameDocument, 0, TextLength(SourceLines(blocks)), SourceNodes(blocks, 0))]

\* state.doc.line(n): line n, numbered from 1.
line(d, n) ==
    LET from == TextLength(SubSeq(d, 1, n - 1)) + (IF n > 1 THEN 1 ELSE 0)
    IN  [number |-> n, from |-> from, to |-> from + d[n]]

\* state.doc.lineAt(pos): the line that holds position pos.
RECURSIVE lineAtFrom(_, _, _)
lineAtFrom(d, pos, n) ==
    IF n >= Len(d) \/ pos <= line(d, n).to THEN line(d, n)
    ELSE lineAtFrom(d, pos, n + 1)

lineAt(d, pos) == lineAtFrom(d, pos, 1)

Deco(class, from) == [class |-> class, from |-> from]

codeLineDecorator == "code code-block-line"
codeBlockStart == "code-block-first-line"
codeBlockEnd == "code-block-last-line"

\* Mutant of codeLines: the loop stops before the last line.
RECURSIVE codeLinesShort(_, _, _)
codeLinesShort(d, lineNo, end) ==
    IF ~ (lineNo < end) THEN <<>>
    ELSE <<Deco(codeLineDecorator, line(d, lineNo).from)>> \o codeLinesShort(d, lineNo + 1, end)

\* for (let lineNo = start; lineNo <= end; lineNo++): the code line decorations.
RECURSIVE codeLines(_, _, _)
codeLines(d, lineNo, end) ==
    IF ~ (lineNo <= end) THEN <<>>
    ELSE <<Deco(codeLineDecorator, line(d, lineNo).from)>> \o codeLines(d, lineNo + 1, end)

\* Mutant of enterCode: a fenced block gets the first and last line decorations
\* of its own lines too.
enterCodeFences(st, node) ==
    IF node.name = NameFencedCode
    THEN <<Deco(codeBlockStart, lineAt(st.doc, node.from).from),
           Deco(codeBlockEnd, lineAt(st.doc, node.to).from)>>
    ELSE IF node.name # NameCodeText THEN <<>>
    ELSE LET start == lineAt(st.doc, node.from).number
             end == lineAt(st.doc, node.to).number
         IN  <<Deco(codeBlockStart, line(st.doc, start).from)>>
             \o codeLines(st.doc, start, end)
             \o <<Deco(codeBlockEnd, line(st.doc, end).from)>>

\* The enter callback of the code block line highlighter: what it pushes.
enterCode(st, node) ==
    IF node.name # NameCodeText THEN <<>>
    ELSE LET start == lineAt(st.doc, node.from).number
             end == lineAt(st.doc, node.to).number
         IN  <<Deco(codeBlockStart, line(st.doc, start).from)>>
             \o codeLines(st.doc, start, end)
             \o <<Deco(codeBlockEnd, line(st.doc, end).from)>>

\* syntaxTree(state).iterate with that callback, which never returns false:
\* the node, then its children.
RECURSIVE iterateCode(_, _)
RECURSIVE iterateCodeAll(_, _)
iterateCode(st, node) == enterCode(st, node) \o iterateCodeAll(st, node.children)
iterateCodeAll(st, nodes) ==
    IF nodes = <<>> THEN <<>>
    ELSE iterateCode(st, nodes[1]) \o iterateCodeAll(st, Tail(nodes))

\* Insertion of a range into ranges sorted by position, after its equals.
RECURSIVE InsertSorted(_, _)
InsertSorted(sorted, w) ==
    IF sorted = <<>> THEN <<w>>
    ELSE IF w.from < sorted[1].from THEN <<w>> \o sorted
    ELSE <<sorted[1]>> \o InsertSorted(Tail(sorted), w)

RECURSIVE SortRanges(_)
SortRanges(widgets) ==
    IF widgets = <<>> THEN <<>>
    ELSE InsertSorted(SortRanges(SubSeq(widgets, 1, Len(widgets) - 1)), widgets[Len(widgets)])

IsSorted(widgets) ==
    \A k \in 1..(Len(widgets) - 1) : widgets[k].from <= widgets[k + 1].from

\* Decoration.set(widgets, sort): sorts when asked to, and otherwise throws on
\* ranges that are not sorted.
DecorationSet(widgets, sort) ==
    IF sort THEN SortRanges(widgets)
    ELSE IF IsSorted(widgets) THEN widgets
    ELSE "RangeError"

\* render of getCodeBlockLineHighlighter
renderCode(st) == DecorationSet(iterateCode(st, st.tree), TRUE)

sizeHeader(level) == <<"size-header", level>>

\* node.type.name.startsWith(prefix)
startsWith(name, prefix) == name[1] = prefix

\* The switch of the heading callback: the decoration of a heading node.
headingWidget(node) ==
    IF node.name \in {NameATX(1), NameSetext(1)} THEN <<Deco(sizeHeader(1), node.from)>>
    ELSE IF node.name \in {NameATX(2), NameSetext(2)} THEN <<Deco(sizeHeader(2), node.from)>>
    ELSE IF node.name = NameATX(3) THEN <<Deco(sizeHeader(3), node.from)>>
    ELSE IF node.name = NameATX(4) THEN <<Deco(sizeHeader(4), node.from)>>
    ELSE IF node.name = NameATX(5) THEN <<Deco(sizeHeader(5), node.from)>>
    ELSE IF node.name = NameATX(6) THEN <<Deco(sizeHeader(6), node.from)>>
    ELSE <<>>

\* The enter callback of the heading line highlighter: what it pushes, and
\* whether the iterator descends into the node.
enterHeading(node) ==
    IF node.name = NameDocument
    THEN [push |-> <<>>, descend |-> TRUE]
    ELSE IF ~ startsWith(node.name, "ATX") /\ ~ startsWith(node.name, "Setext")
    THEN [push |-> <<>>, descend |-> FALSE]
    ELSE [push |-> headingWidget(node), descend |-> TRUE]

\* syntaxTree(state).iterate with that callback.
RECURSIVE iterateHeading(_)
RECURSIVE iterateHeadingAll(_)
iterateHeading(node) ==
    LET r == enterHeading(node)
    IN  IF r.descend THEN r.push \o iterateHeadingAll(node.children) ELSE r.push
iterateHeadingAll(nodes) ==
    IF nodes = <<>> THEN <<>>
    ELSE iterateHeading(nodes[1]) \o iterateHeadingAll(Tail(nodes))

\* render of getHeadingLineHighlighter
renderHeading(st) == DecorationSet(iterateHeading(st.tree), FALSE)

RECURSIVE SeqsUpTo(_, _)
SeqsUpTo(S, n) ==
    IF n = 0 THEN {<<>>}
    ELSE LET shorter == SeqsUpTo(S, n - 1)
         IN  shorter \cup { Append(q, x) : q \in shorter, x \in S }

\* StateField.create of both highlighters.
InitBlocks ==
    /\ source \in SeqsUpTo(BlockKinds, MaxBlocks)
    /\ state = EditorStateOf(source)
    /\ codeDecos = renderCode(state)
    /\ headDecos = renderHeading(state)
    /\ ChessIdle
    /\ SpansIdle

\* StateField.update of both highlighters, on a transaction that appends a
\* block to the document or removes its last block.
update(blocks) ==
    /\ source' = blocks
    /\ state' = EditorStateOf(blocks)
    /\ codeDecos' = renderCode(state')
    /\ headDecos' = renderHeading(state')
    /\ UNCHANGED <<chessVars, spanVars>>

NextBlocks ==
    \/ \E b \in BlockKinds : Len(source) < MaxBlocks /\ update(Append(source, b))
    \/ source # <<>> /\ update(SubSeq(source, 1, Len(source) - 1))

SpecBlocks == InitBlocks /\ [][NextBlocks]_vars

\* ----------------------------------------------------- inline decorator

tagDeco == "cm-zkn-tag"
highlightDeco == "cm-highlight"

\* The characters of a text: the two highlight delimiters, the tag sign, a
\* space, an opening bracket and a letter.
Alphabet == {":", "=", "#", " ", "(", "a"}

\* \s, and the brackets of the lookbehind of tagRe.
Whitespace == {" "}
OpeningBrackets == {"(", "{", "["}

\* The ASCII characters that the character class of tagRe excludes, quotes
\* and the backtick left out.
NonTagChars ==
    Whitespace \cup
    {",", ".", ":", ";", "!", "?", "@", "$", "%", "&", "*", "#", "^", "+", "~",
     "/", "|", "<", "=", ">", "[", "]", "(", ")", "{", "}"}

TagChar(c) == c \notin NonTagChars

Min(S) == CHOOSE x \in S : \A y \in S : x <= y

\* The twofold delimiter d at index p.
delimAt(t, p, d) == p + 1 <= Len(t) /\ t[p] = d /\ t[p + 1] = d

\* highlightRe at index p: the index of the last character of the match of
\* (::.+?::|==.+?==), 0 when it does not match. The lazy .+? ends at the first
\* closing delimiter that leaves it a character.
highlightEnd(t, p) ==
    LET closers(d) == { k \in (p + 3)..(Len(t) - 1) : delimAt(t, k, d) }
    IN  IF delimAt(t, p, ":") /\ closers(":") # {} THEN Min(closers(":")) + 1
        ELSE IF delimAt(t, p, "=") /\ closers("=") # {} THEN Min(closers("=")) + 1
        ELSE 0

\* Mutant of lookbehind: the tag sign may follow any character.
lookbehindAny(t, p) == TRUE

\* (?<=^|\s|[({[]) at index p.
lookbehind(t, p) == p = 1 \/ t[p - 1] \in Whitespace \cup OpeningBrackets

\* tagRe at index p: the index of the last character of the match, 0 when it
\* does not match. After the sign come an optional second sign, the longest
\* run of tag characters, which is not empty, and an optional closing sign.
tagEnd(t, p) ==
    LET q == IF p + 1 <= Len(t) /\ t[p + 1] = "#" THEN p + 2 ELSE p + 1
        stops == { k \in q..Len(t) : ~ TagChar(t[k]) }
        r == IF stops = {} THEN Len(t) + 1 ELSE Min(stops)
    IN  IF ~ (lookbehind(t, p) /\ t[p] = "#") THEN 0
        ELSE IF r = q THEN 0
        ELSE IF r <= Len(t) /\ t[r] = "#" THEN r
        ELSE r - 1

\* The match of the alternation of both patterns at index p: its end and
\* whether group 1, the highlight, took part.
matchAt(t, p) ==
    IF highlightEnd(t, p) # 0 THEN [end |-> highlightEnd(t, p), group1 |-> TRUE]
    ELSE [end |-> tagEnd(t, p), group1 |-> FALSE]

\* The decoration callback of the MatchDecorator.
decoration(m) == IF m.group1 THEN highlightDeco ELSE tagDeco

\* The matches of the global expression from index p on, each with its
\* decoration; from and to are offsets, to exclusive.
RECURSIVE matchesFrom(_, _)
matchesFrom(t, p) ==
    IF p > Len(t) THEN <<>>
    ELSE LET m == matchAt(t, p)
         IN  IF m.end = 0 THEN matchesFrom(t, p + 1)
             ELSE <<[from |-> p - 1, to |-> m.end, class |-> decoration(m)]>>
                  \o matchesFrom(t, m.end + 1)

\* decorator.createDeco(view)
createDeco(t) == matchesFrom(t, 1)

\* decorator.updateDeco(u, decorations): the decorations of the text after
\* the update.
updateDeco(t, old) == matchesFrom(t, 1)

Texts == UNION { [1..n -> Alphabet] : n \in 0..MaxLen }

\* The view plugin of getInlineDecorator is made for a view.
InitSpans ==
    /\ text \in Texts
    /\ decorations = createDeco(text)
    /\ ChessIdle
    /\ BlocksIdle

\* update(u) of the view plugin, on a change of the text.
updateSpans(t) ==
    /\ text' = t
    /\ decorations' = updateDeco(t, decorations)
    /\ UNCHANGED <<chessVars, blockVars>>

NextSpans ==
    \/ \E c \in Alphabet : Len(text) < MaxLen /\ updateSpans(Append(text, c))
    \/ text # <<>> /\ updateSpans(SubSeq(text, 1, Len(text) - 1))

SpecSpans == InitSpans /\ [][NextSpans]_vars

\* ------------------------------------------------ chess renderer: claims

Rendered == lastOp \in {"render", "render2"}

\* The line is an opening fence the scan accepts.
Opens(i) ==
    /\ getModeAt(i) = MarkdownMode
    /\ i # cursor
    /\ IsChessFence(getLine(i))

\* The first line after i that is the caret line or a closing fence; the line
\* count when there is none.
FirstStop(i) ==
    LET stops == { j \in (i + 1)..(lineCount - 1) :
                     j = cursor \/ IsClosingFence(getLine(j)) }
    IN  IF stops = {} THEN lineCount
        ELSE CHOOSE j \in stops : \A l \in stops : j <= l

\* The line the scan goes to after line k.
After(k) == IF Opens(k) THEN FirstStop(k) + 1 ELSE k + 1

\* The viewport lines the left-to-right scan stands on.
ScanLines ==
    LET stands[i \in 0..lineCount] ==
            \/ i = viewport.from
            \/ \E k \in 0..(i - 1) : stands[k] /\ k < viewport.to /\ After(k) = i
    IN  { i \in 0..(lineCount - 1) : stands[i] /\ i < viewport.to }

\* The text of lines a..b with a newline between two lines.
RECURSIVE LinesJoined(_, _)
LinesJoined(a, b) ==
    IF a > b THEN <<>>
    ELSE IF a = b THEN getLine(a)
    ELSE LinesJoined(a, b - 1) \o <<"\n">> \o getLine(b)

\* Two ranges of positions share a position.
Overlap(f1, t1, f2, t2) == PosLess(f1, t2) /\ PosLess(f2, t1)

\* The blocks of the scan that get a widget: closed by a fence before the caret
\* line is met, and not overlapped by a marker that was live.
ScanBlocks ==
    { i \in ScanLines :
        /\ Opens(i)
        /\ FirstStop(i) < lineCount
        /\ FirstStop(i) # cursor
        /\ \A k \in DOMAIN before :
             ~ Overlap(before[k].from, before[k].to, <<i, 0>>, <<FirstStop(i), 3>>) }

Range(w) == [from |-> w.from, to |-> w.to]
Placed(w) == [from |-> w.from, to |-> w.to, code |-> w.code]
SeqSet(s) == { s[k] : k \in DOMAIN s }
Count(s, x) == Cardinality({ k \in DOMAIN s : s[k] = x })

\* C1: the widgets one call creates are exactly those of the left-to-right scan:
\* one per accepted block, replacing (i,0)-(j,3), built from lines i+1..j-1
\* joined by newlines, and none in any other case.
C1_WidgetsAreThoseOfTheScan ==
    Rendered =>
        /\ { Placed(w) : w \in SeqSet(created) } =
             { [from |-> <<i, 0>>, to |-> <<FirstStop(i), 3>>,
                code |-> LinesJoined(i + 1, FirstStop(i) - 1)] : i \in ScanBlocks }
        /\ Len(created) = Cardinality(ScanBlocks)
        /\ markers = before \o created

\* C1 witness: a call that rendered a block of two payload lines, joined by a
\* newline, whose closing fence lies after the viewport.
C1_Witness ==
    /\ Rendered
    /\ Len(created) = 1
    /\ created[1].code = BoardText \o <<"\n">> \o BoardText
    /\ viewport.to < created[1].to[1]

\* C2: no widget created by a call covers the caret line read by that call.
C2_CaretExclusion ==
    Rendered =>
        \A k \in DOMAIN created :
            ~ (created[k].from[1] <= cursor /\ cursor <= created[k].to[1])

\* C2 witness: the caret stands on the closing fence of a block, and the call
\* has made no widget.
C2_Witness ==
    /\ Rendered
    /\ created = <<>>
    /\ before = <<>>
    /\ IsClosingFence(getLine(cursor))
    /\ \E i \in ScanLines : Opens(i) /\ FirstStop(i) = cursor

\* C3: a second call with the same document, caret and viewport creates no
\* widget and leaves the markers as they were.
C3_Idempotence ==
    lastOp = "render2" => (created = <<>> /\ markers = before)

\* C3 witness: a second call in a row while a widget of the first is live.
C3_Witness ==
    /\ lastOp = "render2"
    /\ markers # <<>>
    /\ ScanBlocks = {}
    /\ \E i \in ScanLines : Opens(i) /\ FirstStop(i) < lineCount /\ FirstStop(i) # cursor

\* C4: no two live widgets cover overlapping ranges.
C4_NoOverlap ==
    \A k, l \in DOMAIN markers :
        k # l => ~ Overlap(markers[k].from, markers[k].to, markers[l].from, markers[l].to)

\* C4 witness: a call skipped a block because a live widget, made by an earlier
\* call, lies inside it.
C4_Witness ==
    /\ Rendered
    /\ created = <<>>
    /\ \E i \in ScanLines : \E k \in DOMAIN markers :
          /\ Opens(i) /\ FirstStop(i) < lineCount /\ FirstStop(i) # cursor
          /\ markers[k].from[1] > i
          /\ markers[k].to[1] = FirstStop(i)

\* C5: a payload the board rejects still gets exactly one widget, marked as an
\* error; the call goes on to the later blocks as if the board had been built,
\* and no exception leaves it.
C5_ErrorWidgetAndScanGoesOn ==
    Rendered =>
        /\ ~ threw
        /\ { Range(w) : w \in SeqSet(created) } =
             { [from |-> <<i, 0>>, to |-> <<FirstStop(i), 3>>] : i \in ScanBlocks }
        /\ Len(created) = Cardinality(ScanBlocks)
        /\ \A k \in DOMAIN created :
             ("error" \in created[k].elem) <=>
                 (\E l \in (created[k].from[1] + 1)..(created[k].to[1] - 1) :
                      getLine(l) = BrokenText)

\* C5 witness: the first block got the error element and a later block a board.
C5_Witness ==
    /\ Rendered
    /\ Len(created) = 2
    /\ "error" \in created[1].elem
    /\ "error" \notin created[2].elem

\* A marker that is live before the step and not after it.
Removed(k) == Count(markers', markers[k]) < Count(markers, markers[k])

\* C9 as stated: a widget is removed by the click handler only.
C9_OnlyClickRemoves ==
    [][\A k \in DOMAIN markers : Removed(k) => lastOp' = "click"]_vars

\* C9 amended: a call never removes a widget; a widget is removed by the click
\* handler, or clears itself when the caret enters its range.
C9_RemovedByClickOrCaretEntry ==
    [][\A k \in DOMAIN markers :
          Removed(k) =>
              \/ lastOp' = "click"
              \/ /\ lastOp' = "cursor"
                 /\ markers[k].clearOnEnter
                 /\ markers[k].from[1] <= cursor'
                 /\ cursor' <= markers[k].to[1]]_vars

\* C9 witness: a call ran while the caret stood on the first line of a live
\* widget, and the widget is still there.
C9_Witness ==
    /\ Rendered
    /\ created = <<>>
    /\ \E k \in DOMAIN markers : markers[k].from[1] = cursor

\* ----------------------------------------------- line highlighters: claims

\* Every node of the tree below and including node.
RECURSIVE AllNodes(_)
AllNodes(node) ==
    {node} \cup UNION { AllNodes(node.children[k]) : k \in DOMAIN node.children }

\* The position at which line L begins, and the line a position lies on.
LineStart(L) == SumLens(SubSeq(state.doc, 1, L - 1)) + (L - 1)
LineOf(pos) ==
    CHOOSE L \in 1..Len(state.doc) : LineStart(L) <= pos /\ pos <= LineStart(L) + state.doc[L]

CodeTextNodes == { n \in AllNodes(state.tree) : n.name = NameCodeText }

\* The fenced code blocks without a line of code.
EmptyFencedBlocks ==
    { f \in AllNodes(state.tree) :
        /\ f.name = NameFencedCode
        /\ \A k \in DOMAIN f.children : f.children[k].name # NameCodeText }

HeadingNodes ==
    { n \in AllNodes(state.tree) :
        Len(n.name) = 3 /\ n.name[1] \in {"ATX", "Setext"} /\ n.name[2] = "Heading" }

Highlighted == state # [doc |-> <<0>>]

\* C6: the code block decorations are exactly, for each code-text node on lines
\* s..e, block-first on s, block-last on e and code-line on each of s..e; no
\* other line carries one.
C6_CodeBlockDecorations ==
    Highlighted =>
        /\ codeDecos \in Seq([class : {codeBlockStart, codeBlockEnd, codeLineDecorator},
                              from : 0..TextLength(state.doc)])
        /\ \A p \in 0..TextLength(state.doc) :
             /\ Count(codeDecos, Deco(codeBlockStart, p)) =
                  Cardinality({ n \in CodeTextNodes : p = LineStart(LineOf(n.from)) })
             /\ Count(codeDecos, Deco(codeBlockEnd, p)) =
                  Cardinality({ n \in CodeTextNodes : p = LineStart(LineOf(n.to)) })
             /\ Count(codeDecos, Deco(codeLineDecorator, p)) =
                  Cardinality({ n \in CodeTextNodes :
                                  \E L \in LineOf(n.from)..LineOf(n.to) : p = LineStart(L) })

\* C6 witness: a code-text node on one line and another on two lines.
C6_Witness ==
    /\ Highlighted
    /\ \E n \in CodeTextNodes : LineOf(n.from) = LineOf(n.to)
    /\ \E n \in CodeTextNodes : LineOf(n.from) < LineOf(n.to)
    /\ Len(codeDecos) = 7

\* C7 as stated: every heading node of the tree has exactly one line decoration
\* at its start, with the size class of its level, and there is no other one.
C7_EveryHeadingDecorated ==
    Highlighted =>
        /\ headDecos \in Seq([class : { sizeHeader(l) : l \in 1..6 },
                              from : 0..TextLength(state.doc)])
        /\ \A n \in HeadingNodes : Count(headDecos, Deco(sizeHeader(n.name[3]), n.from)) = 1
        /\ Len(headDecos) = Cardinality(HeadingNodes)

\* The lines of a node begin at these positions.
LineStartsOf(n) == { LineStart(L) : L \in LineOf(n.from)..LineOf(n.to) }

\* C10 as stated: a code block without a line of code has no code-line
\* decoration, but has block-first on its first line and block-last on its last.
C10_EmptyBlockKeepsFirstAndLast ==
    Highlighted =>
        \A f \in EmptyFencedBlocks :
            /\ \A p \in LineStartsOf(f) : Count(codeDecos, Deco(codeLineDecorator, p)) = 0
            /\ Count(codeDecos, Deco(codeBlockStart, LineStart(LineOf(f.from)))) >= 1
            /\ Count(codeDecos, Deco(codeBlockEnd, LineStart(LineOf(f.to)))) >= 1

\* C10 amended: a code block without a line of code has no decoration at all on
\* its lines, neither code-line nor block-first nor block-last.
C10_EmptyBlockHasNoDecoration ==
    Highlighted =>
        \A f \in EmptyFencedBlocks :
            \A k \in DOMAIN codeDecos : codeDecos[k].from \notin LineStartsOf(f)

\* C10 witness: a code block without a line of code beside one with code.
C10_Witness ==
    /\ Highlighted
    /\ EmptyFencedBlocks # {}
    /\ codeDecos # <<>>

\* ------------------------------------------------- inline decorator: claims

====
